---------------------------- MODULE Spec2Model ----------------------------
(***************************************************************************)
(* Model of tensor2tensor/trax/layers/attention.py: the mask builders,     *)
(* the positional encoding (table and chunk-aware apply), the dot-product  *)
(* attention, the head split/join of the multi-headed attention and the    *)
(* chunk-aware right shift.                                                *)
(*                                                                         *)
(* A tensor is a record [shape, at]: shape is the tuple of its dimensions  *)
(* and at the nested function of its elements (indices from 1, where the   *)
(* source counts from 0).  Floating-point values are fixed-point integers  *)
(* in units of 1/Scale.  Array operations follow numpy: slices clamp to    *)
(* the axis, an integer index outside the axis is an IndexError, and the   *)
(* element-wise addition broadcasts an axis of size 1.                     *)
(*                                                                         *)
(* The state is one layer (its name and its parameters, as left by the     *)
(* layer's initialisation), the input handed to it and the result of       *)
(* applying it.                                                            *)
(***************************************************************************)
EXTENDS Integers, Sequences, FiniteSets

VARIABLES
  layer,    \* name of the layer function that was constructed
  params,   \* its parameters: the positional-encoding table, or <<>>
  arg,      \* the input (and keyword arguments) of the call
  res       \* the outcome of the call: [pc, err, val, ...]

vars == <<layer, params, arg, res>>

---------------------------------------------------------------------------
(* Bounds of the model *)

MaxBatch == 2       \* batch sizes 1..MaxBatch
MaxSeqLen == 3      \* sequence (time) lengths 0..MaxSeqLen
MaxChunks == 3      \* chunk lists of 0..MaxChunks chunks
MaxChunkLen == 2    \* chunk lengths 0..MaxChunkLen
MaxSeed == 1        \* input tensors are drawn from seeds 0..MaxSeed
ValMod == 7         \* input elements are in 0..ValMod-1
MaxSize == 4        \* mask sizes and encoder/decoder lengths 0..MaxSize
MaxHeads == 3       \* num_heads in 1..MaxHeads
MaxHeadDepth == 2   \* feature depths of the head inputs in 1..MaxHeads * MaxHeadDepth
MaxAttnLen == 2     \* query and key lengths 1..MaxAttnLen
MaxAttnDepth == 2   \* query depths 1..MaxAttnDepth
MaxRng == 7         \* random keys 0..MaxRng
MaxTableLen == 4    \* max_len of the positional-encoding table in 1..MaxTableLen
Scale == 1000       \* a floating-point value v is the integer nearest v * Scale

Depths == {2, 4}    \* feature depths of the inputs

---------------------------------------------------------------------------
(* Arrays *)

Min(a, b) == IF a < b THEN a ELSE b
Max(a, b) == IF a > b THEN a ELSE b

\* A 2-d array from the function that gives its elements.
T2(B, D, F) ==
  [shape |-> <<B, D>>,
   at |-> [b \in 1..B |-> [d \in 1..D |-> F[b, d]]]]

\* A 3-d array (batch, time, feature) from its element function.
T3(B, L, D, F) ==
  [shape |-> <<B, L, D>>,
   at |-> [b \in 1..B |-> [t \in 1..L |-> [d \in 1..D |-> F[b, t, d]]]]]

\* A 4-d array from its element function.
T4(B, H, L, D, F) ==
  [shape |-> <<B, H, L, D>>,
   at |-> [b \in 1..B |-> [h \in 1..H |-> [t \in 1..L |->
            [d \in 1..D |-> F[b, h, t, d]]]]]]

\* The outcome of a call: a returned value, or a raised error and no value.
NotCalled == [pc |-> "start", err |-> "none", val |-> <<>>]
Returned(v) == [pc |-> "done", err |-> "none", val |-> v]
Raised(e) == [pc |-> "done", err |-> e, val |-> <<>>]

\* x[:, lo:hi, :] with Python's clamping of slice bounds (0 <= lo <= hi).
SliceAxis1(x, lo, hi) ==
  LET n == x.shape[2]
      a == Min(lo, n)
      b == Min(hi, n)
  IN T3(x.shape[1], b - a, x.shape[3],
        [i \in Nat, t \in Nat, d \in Nat |-> x.at[i][a + t][d]])

\* np.concatenate([x, y], axis=1) of two 3-d arrays.
ConcatAxis1(x, y) ==
  T3(x.shape[1], x.shape[2] + y.shape[2], x.shape[3],
     [b \in Nat, t \in Nat, d \in Nat |-> IF t <= x.shape[2] THEN x.at[b][t][d]
                      ELSE y.at[b][t - x.shape[2]][d]])

---------------------------------------------------------------------------
(* Inputs *)

\* The i-th element (row-major, from 0) of the input tensor of a seed.
Elem(seed, i) == ((i + 1) * (seed + 1) + seed) % ValMod

GenTensor(B, L, D, seed) ==
  T3(B, L, D,
     [b \in Nat, t \in Nat, d \in Nat |->
        Elem(seed, ((b - 1) * L + (t - 1)) * D + (d - 1))])

RECURSIVE SumSeq(_)
SumSeq(s) == IF s = <<>> THEN 0 ELSE s[1] + SumSeq(Tail(s))

\* Sum of the first k entries of s.
PrefixSum(s, k) == SumSeq(SubSeq(s, 1, k))

\* The chunk layouts: sequences of at most MaxChunks chunk lengths.
RECURSIVE SeqsUpTo(_, _)
SeqsUpTo(S, n) ==
  IF n = 0 THEN {<<>>}
  ELSE LET shorter == SeqsUpTo(S, n - 1)
       IN shorter \cup {Append(s, e) : s \in {r \in shorter : Len(r) = n - 1}, e \in S}

ChunkLayouts == SeqsUpTo(0..MaxChunkLen, MaxChunks)

\* x split along the time axis into chunks of the given lengths.
SplitAt(x, lens) ==
  [k \in 1..Len(lens) |->
     SliceAxis1(x, PrefixSum(lens, k - 1), PrefixSum(lens, k))]

\* The input of a layer that takes one tensor or a list of chunks.
Plain(x) == [chunked |-> FALSE, batch |-> x.shape[1], depth |-> x.shape[3],
             lens |-> <<x.shape[2]>>, chunks |-> <<x>>]
Chunked(x, lens) == [chunked |-> TRUE, batch |-> x.shape[1], depth |-> x.shape[3],
                     lens |-> lens, chunks |-> SplitAt(x, lens)]

SeqInputs(D) ==
  {Plain(GenTensor(B, L, D, s)) : B \in 1..MaxBatch, L \in 0..MaxSeqLen, s \in 0..MaxSeed}
  \cup
  {Chunked(GenTensor(B, SumSeq(lens), D, s), lens) :
     B \in 1..MaxBatch, lens \in ChunkLayouts, s \in 0..MaxSeed}

\* The chunks of an input laid end to end along the time axis.
RECURSIVE ConcatAll(_, _, _)
ConcatAll(chunks, B, D) ==
  IF chunks = <<>> THEN T3(B, 0, D, [b \in Nat, t \in Nat, d \in Nat |-> 0])
  ELSE ConcatAxis1(chunks[1], ConcatAll(Tail(chunks), B, D))

---------------------------------------------------------------------------
(* ShiftRight *)

\* Mutant of PadLeftAxis1: pad_widths[1] = (0, 1), the zero after the last step.
PadRightAxis1(x) ==
  T3(x.shape[1], x.shape[2] + 1, x.shape[3],
     [b \in Nat, t \in Nat, d \in Nat |-> IF t = x.shape[2] + 1 THEN 0 ELSE x.at[b][t][d]])

\* np.pad(x, [(0,0),(1,0),(0,0)], mode='constant', constant_values=0)
PadLeftAxis1(x) ==
  T3(x.shape[1], x.shape[2] + 1, x.shape[3],
     [b \in Nat, t \in Nat, d \in Nat |-> IF t = 1 THEN 0 ELSE x.at[b][t - 1][d]])

\* padded[:, :-1]
DropLastAxis1(x) == SliceAxis1(x, 0, Max(x.shape[2] - 1, 0))

\* Non-chunked branch of ShiftRight.
ShiftRightTensor(x) == DropLastAxis1(PadLeftAxis1(x))

\* Mutant of LastValue: chunk[:, 0], the first time step.
FirstValue(chunk) ==
  T2(chunk.shape[1], chunk.shape[3], [b \in Nat, d \in Nat |-> chunk.at[b][1][d]])

\* chunk[:, -1] of a chunk with at least one time step.
LastValue(chunk) ==
  T2(chunk.shape[1], chunk.shape[3], [b \in Nat, d \in Nat |-> chunk.at[b][chunk.shape[2]][d]])

\* np.zeros_like(x[0][:, -1])
ZerosLikeLast(chunk) == T2(chunk.shape[1], chunk.shape[3], [b \in Nat, d \in Nat |-> 0])

\* np.concatenate([last_value[:, np.newaxis], chunk], axis=1)
PrependValue(last_value, chunk) ==
  T3(chunk.shape[1], chunk.shape[2] + 1, chunk.shape[3],
     [b \in Nat, t \in Nat, d \in Nat |->
        IF t = 1 THEN last_value.at[b][d] ELSE chunk.at[b][t - 1][d]])

\* The loop over the chunks, from chunk k on; chunk[:, -1] of an empty chunk
\* is an IndexError and the call returns nothing.
RECURSIVE ShiftRightLoop(_, _, _, _)
ShiftRightLoop(x, k, last_value, padded) ==
  IF k > Len(x) THEN Returned(padded)
  ELSE IF x[k].shape[2] = 0 THEN Raised("IndexError")
  ELSE ShiftRightLoop(x, k + 1, LastValue(x[k]),
                      Append(padded, DropLastAxis1(PrependValue(last_value, x[k]))))

ShiftRight(x) ==
  IF ~x.chunked THEN Returned(ShiftRightTensor(x.chunks[1]))
  ELSE IF x.chunks = <<>> \/ x.chunks[1].shape[2] = 0 THEN Raised("IndexError")
  ELSE ShiftRightLoop(x.chunks, 1, ZerosLikeLast(x.chunks[1]), <<>>)

---------------------------------------------------------------------------
(* Fixed-point elementary functions *)

\* onp.log(10000.0) = 9.21034
LogTenThousand == (921034 * Scale) \div 100000

\* The Taylor series of exp(-y) for 0 <= y <= 1: mag is the magnitude of the
\* term y^n / n!, and the terms alternate in sign.
RECURSIVE ExpSeries(_, _, _, _)
ExpSeries(y, mag, n, sign) ==
  IF mag = 0 THEN 0
  ELSE sign * mag + ExpSeries(y, ((mag * y) \div Scale) \div (n + 1), n + 1, -sign)

\* exp(x) for x <= 0: the series on [-1, 0], and below it the square of the
\* exponential of half the argument; it underflows to 0 as in floating point.
RECURSIVE ExpFx(_)
ExpFx(x) ==
  IF x < -(20 * Scale) THEN 0
  ELSE IF x >= -Scale THEN ExpSeries(-x, Scale, 0, 1)
  ELSE LET h == ExpFx(x \div 2) IN (h * h) \div Scale

\* The Taylor series of sin and cos for x >= 0: mag is the magnitude of the
\* term of x^n / n!, and the terms alternate in sign.
RECURSIVE AltSeries(_, _, _, _)
AltSeries(x, mag, n, sign) ==
  IF mag = 0 THEN 0
  ELSE sign * mag
       + AltSeries(x, ((((((mag * x) \div Scale) \div (n + 1)) * x) \div Scale) \div (n + 2)),
                   n + 2, -sign)

SinFx(x) == AltSeries(x, x, 1, 1)
CosFx(x) == AltSeries(x, Scale, 0, 1)

---------------------------------------------------------------------------
(* PositionalEncoding *)

\* div_term[i] = exp(arange(0, feature_depth, 2)[i] * -(log(10000.0) / feature_depth))
DivTerm(i, feature_depth) ==
  ExpFx(-((2 * i) * (LogTenThousand \div feature_depth)))

\* The table of shape (1, max_len, feature_depth): sines of position * div_term
\* in the even columns and cosines in the odd ones (columns counted from 0).
positional_encoding_new_params(max_len, feature_depth) ==
  T3(1, max_len, feature_depth,
     [b \in Nat, t \in Nat, d \in Nat |->
       LET position == t - 1
           col == d - 1
           angle == position * DivTerm(col \div 2, feature_depth)
       IN IF col % 2 = 0 THEN SinFx(angle) ELSE CosFx(angle)])

\* x + p for x of shape (B, L, D) and p of shape (1, r, D): numpy broadcasts
\* the time axis when one side has size 1, and raises otherwise.
BroadcastAdd(x, p) ==
  LET L == x.shape[2]
      r == p.shape[2]
  IN IF L = r
       THEN Returned(T3(x.shape[1], L, x.shape[3],
                        [b \in Nat, t \in Nat, d \in Nat |-> x.at[b][t][d] + p.at[1][t][d]]))
     ELSE IF r = 1
       THEN Returned(T3(x.shape[1], L, x.shape[3],
                        [b \in Nat, t \in Nat, d \in Nat |-> x.at[b][t][d] + p.at[1][1][d]]))
     ELSE IF L = 1
       THEN Returned(T3(x.shape[1], r, x.shape[3],
                        [b \in Nat, t \in Nat, d \in Nat |-> x.at[b][1][d] + p.at[1][t][d]]))
     ELSE Raised("ValueError")

\* Mutant of NextOffset: the offset is not advanced.
SameOffset(offset, symbol_size) == offset

\* offset += symbol_size
NextOffset(offset, symbol_size) == offset + symbol_size

\* chunk + params[:, offset:offset + symbol_size, :]
EncodeChunk(chunk, table, offset) ==
  BroadcastAdd(chunk, SliceAxis1(table, offset, offset + chunk.shape[2]))

\* The loop over the chunks, from chunk k on.
RECURSIVE PositionalEncodingLoop(_, _, _, _, _)
PositionalEncodingLoop(x, table, k, offset, results) ==
  IF k > Len(x) THEN Returned(results)
  ELSE LET symbol_size == x[k].shape[2]
           sum == EncodeChunk(x[k], table, offset)
       IN IF sum.err # "none" THEN sum
          ELSE PositionalEncodingLoop(x, table, k + 1, NextOffset(offset, symbol_size),
                                      Append(results, sum.val))

PositionalEncoding(x, table) ==
  IF ~x.chunked THEN EncodeChunk(x.chunks[1], table, 0)
  ELSE PositionalEncodingLoop(x.chunks, table, 1, 0, <<>>)

---------------------------------------------------------------------------
(* Reshape and transpose *)

\* The number of elements of an array of the given shape.
RECURSIVE Size(_)
Size(shape) == IF shape = <<>> THEN 1 ELSE shape[1] * Size(Tail(shape))

\* The i-th element of x in row-major order (i from 0), for x of 2 to 4 axes.
FlatAt(x, i) ==
  LET s == x.shape
  IN CASE Len(s) = 2 -> x.at[(i \div s[2]) + 1][(i % s[2]) + 1]
       [] Len(s) = 3 -> x.at[(i \div (s[2] * s[3])) + 1][((i \div s[3]) % s[2]) + 1]
                            [(i % s[3]) + 1]
       [] Len(s) = 4 -> x.at[(i \div (s[2] * s[3] * s[4])) + 1]
                            [((i \div (s[3] * s[4])) % s[2]) + 1]
                            [((i \div s[4]) % s[3]) + 1][(i % s[4]) + 1]

\* np.reshape(x, (B, L, D)): the same elements in row-major order.
Reshape3(x, B, L, D) ==
  T3(B, L, D,
     [b \in Nat, t \in Nat, d \in Nat |->
        FlatAt(x, ((b - 1) * L + (t - 1)) * D + (d - 1))])

\* np.reshape(x, (B, H, L, D)).
Reshape4(x, B, H, L, D) ==
  T4(B, H, L, D,
     [b \in Nat, h \in Nat, t \in Nat, d \in Nat |->
        FlatAt(x, (((b - 1) * H + (h - 1)) * L + (t - 1)) * D + (d - 1))])

\* The axis that -1 stands for in a reshape of x whose other axes multiply to rest.
InferAxis(x, rest) == Size(x.shape) \div rest

\* np.transpose(x, (0, 2, 1, 3))
Transpose0213(x) ==
  T4(x.shape[1], x.shape[3], x.shape[2], x.shape[4],
     [b \in Nat, i \in Nat, j \in Nat, d \in Nat |-> x.at[b][j][i][d]])

\* shape[axis] for a Python index, negative ones counting from the end.
ShapeAt(shape, axis) ==
  IF axis < 0 THEN shape[Len(shape) + axis + 1] ELSE shape[axis + 1]

---------------------------------------------------------------------------
(* CausalMask and EncoderDecoderMask *)

\* onp.ones((1, size, size))
Ones(size) == T3(1, size, size, [b \in Nat, i \in Nat, j \in Nat |-> 1])

\* Mutant of Tril: onp.triu(m, k), the elements on and above the diagonal.
Triu(m, k) ==
  T3(m.shape[1], m.shape[2], m.shape[3],
     [b \in Nat, i \in Nat, j \in Nat |-> IF j - i >= k THEN m.at[b][i][j] ELSE 0])

\* onp.tril(m, k): the elements on and below the k-th diagonal, zero above it.
Tril(m, k) ==
  T3(m.shape[1], m.shape[2], m.shape[3],
     [b \in Nat, i \in Nat, j \in Nat |-> IF j - i <= k THEN m.at[b][i][j] ELSE 0])

CausalMask(x_shape, axis) ==
  LET size == ShapeAt(x_shape, axis)
  IN Returned(Tril(Ones(size), 0))

\* A boolean as a floating-point number: True is 1.0.
BoolToFloat(v) == IF v THEN Scale ELSE 0

\* Mutant of DecoderZeros: np.zeros((1, 1, 1, 1)), no decoder axis to broadcast.
SingleZero(decoder_len) == T4(1, 1, 1, 1, [b \in Nat, h \in Nat, t \in Nat, k \in Nat |-> 0])

\* np.zeros((1, 1, decoder_len, 1))
DecoderZeros(decoder_len) ==
  T4(1, 1, decoder_len, 1, [b \in Nat, h \in Nat, t \in Nat, k \in Nat |-> 0])

\* mask + zeros for mask of shape (B, 1, 1, L) and zeros of shape (1, 1, T, 1):
\* both broadcast to (B, 1, T, L).
BroadcastMask(mask, zeros) ==
  T4(mask.shape[1], 1, zeros.shape[3], mask.shape[4],
     [b \in Nat, h \in Nat, t \in Nat, k \in Nat |->
        BoolToFloat(mask.at[b][1][1][k]) + zeros.at[1][1][t][1]])

EncoderDecoderMask(padding_mask, decoder_input_shape) ==
  LET reshaped == Reshape4(padding_mask, padding_mask.shape[1], 1, 1,
                           ShapeAt(padding_mask.shape, -1))
  IN Returned(BroadcastMask(reshaped, DecoderZeros(decoder_input_shape[2])))

\* The padding masks: the boolean arrays of shape (B, L) and (B, 1, 1, L).
PaddingMasksOf(B, L) ==
  UNION {{T2(B, L, [b \in Nat, k \in Nat |-> m[b][k]]),
          T4(B, 1, 1, L, [b \in Nat, h \in Nat, t \in Nat, k \in Nat |-> m[b][k]])} :
           m \in [1..B -> [1..L -> BOOLEAN]]}

PaddingMasks ==
  UNION {PaddingMasksOf(B, L) : B \in 1..MaxBatch, L \in 0..(MaxSize - 1)}

---------------------------------------------------------------------------
(* SplitHeads and JoinHeads of PureMultiHeadedAttention *)

\* Mutant of SplitHeads: np.reshape(x, (nbatch, num_heads, -1, head_depth)),
\* the reshape without the transpose.
SplitHeadsByReshape(x, nbatch, num_heads, head_depth) ==
  Reshape4(x, nbatch, num_heads, InferAxis(x, nbatch * num_heads * head_depth),
           head_depth)

\* np.transpose(np.reshape(x, (nbatch, -1, num_heads, head_depth)), (0, 2, 1, 3))
SplitHeads(x, nbatch, num_heads, head_depth) ==
  Transpose0213(Reshape4(x, nbatch, InferAxis(x, nbatch * num_heads * head_depth),
                         num_heads, head_depth))

\* np.reshape(np.transpose(x, (0, 2, 1, 3)), (nbatch, -1, num_heads * head_depth))
JoinHeads(x, nbatch, num_heads, head_depth) ==
  Reshape3(Transpose0213(x), nbatch,
           InferAxis(x, nbatch * num_heads * head_depth), num_heads * head_depth)

---------------------------------------------------------------------------
(* DotProductAttention *)

\* The value that np.where puts at the masked positions, -1e9, kept as the
\* integer it is: its exponential underflows to 0 at every scale.
NegSentinel == -1000000000

\* The integer square root of n by bisection of lo..hi.
RECURSIVE SqrtSearch(_, _, _)
SqrtSearch(n, lo, hi) ==
  IF lo >= hi THEN lo
  ELSE LET mid == (lo + hi + 1) \div 2
       IN IF mid * mid <= n THEN SqrtSearch(n, mid, hi) ELSE SqrtSearch(n, lo, mid - 1)

\* np.sqrt(depth) of an integer depth
SqrtFx(depth) == SqrtSearch(depth * Scale * Scale, 0, 46340)

RECURSIVE SumTo(_, _)
\* f[1] + ... + f[n]
SumTo(f, n) == IF n = 0 THEN 0 ELSE f[n] + SumTo(f, n - 1)

\* np.matmul(a, b) of a (n, m) and b (m, p)
MatMul(a, b) ==
  T2(a.shape[1], b.shape[2],
     [i \in Nat, j \in Nat |-> SumTo([c \in 1..a.shape[2] |-> (a.at[i][c] * b.at[c][j]) \div Scale],
                         a.shape[2])])

\* np.swapaxes(key, -1, -2)
SwapAxes(key) == T2(key.shape[2], key.shape[1], [i \in Nat, j \in Nat |-> key.at[j][i]])

\* np.matmul(query, np.swapaxes(key, -1, -2)) / np.sqrt(depth)
Scores(query, key) ==
  LET prod == MatMul(query, SwapAxes(key))
      root == SqrtFx(query.shape[2])
  IN T2(prod.shape[1], prod.shape[2], [i \in Nat, j \in Nat |-> (prod.at[i][j] * Scale) \div root])

\* np.where(mask, dots, -1e9), the mask of shape (1, Lk) or (Lq, Lk) broadcast
\* against dots
Where(mask, dots) ==
  T2(dots.shape[1], dots.shape[2],
     [i \in Nat, j \in Nat |-> IF mask.at[IF mask.shape[1] = 1 THEN 1 ELSE i][j]
                   THEN dots.at[i][j] ELSE NegSentinel])

RowMax(row, n) == CHOOSE m \in {row[j] : j \in 1..n} : \A j \in 1..n : row[j] <= m

\* np.exp(dots - logsumexp(dots, axis=-1, keepdims=True)): every row's
\* exponentials, taken relative to the row's maximum, over their sum.
Softmax(dots) ==
  LET n == dots.shape[2]
      e == [i \in 1..dots.shape[1] |->
              [j \in 1..n |-> ExpFx(dots.at[i][j] - RowMax(dots.at[i], n))]]
  IN T2(dots.shape[1], n, [i \in Nat, j \in Nat |-> (e[i][j] * Scale) \div SumTo(e[i], n)])

RECURSIVE Pow2(_)
Pow2(n) == IF n = 0 THEN 1 ELSE 2 * Pow2(n - 1)

\* backend.random.bernoulli(rng, 1.0 - dropout, dots.shape): the keep mask the
\* key yields, one bit of the key per element in row-major order.
Bernoulli(rng, shape) ==
  T2(shape[1], shape[2],
     [i \in Nat, j \in Nat |-> (rng \div Pow2((i - 1) * shape[2] + (j - 1))) % 2 = 1])

\* np.where(keep, dots / (1.0 - dropout), 0)
Dropout(keep, dots, dropout) ==
  T2(dots.shape[1], dots.shape[2],
     [i \in Nat, j \in Nat |-> IF keep.at[i][j] THEN (dots.at[i][j] * Scale) \div (Scale - dropout)
                   ELSE 0])

\* Mutant of UseDropout: the mode is not looked at.
UseDropoutInAnyMode(dropout, mode) == dropout > 0

\* dropout is not None and dropout > 0.0 and mode == 'train'
UseDropout(dropout, mode) == dropout > 0 /\ mode = "train"

\* The outcome of DotProductAttention, with the tensor computations it made
\* (computed) and the attention weights it multiplied the values by (dots).
AttentionRaised(e, computed) ==
  [pc |-> "done", err |-> e, val |-> <<>>, computed |-> computed, dots |-> <<>>]
AttentionReturned(out, computed, dots) ==
  [pc |-> "done", err |-> "none", val |-> out, computed |-> computed, dots |-> dots]

DotProductAttention(query, key, value, mask, dropout, mode, rng) ==
  IF query.shape[2] # key.shape[2]
    THEN AttentionRaised("ValueError: matmul: mismatch in its core dimension", <<>>)
  ELSE
    LET scores == Scores(query, key)
        masked == IF mask.given THEN Where(mask, scores) ELSE scores
        weights == Softmax(masked)
        computed == IF mask.given THEN <<"matmul", "where", "softmax">>
                    ELSE <<"matmul", "softmax">>
    IN IF dropout >= Scale
         THEN AttentionRaised("ValueError: Dropout rates must be lower than 1.", computed)
       ELSE
         LET dots == IF UseDropout(dropout, mode)
                       THEN Dropout(Bernoulli(rng, weights.shape), weights, dropout)
                     ELSE weights
         IN AttentionReturned(
              MatMul(dots, value),
              computed \o (IF UseDropout(dropout, mode) THEN <<"bernoulli", "where">>
                           ELSE <<>>) \o <<"matmul">>,
              dots)

\* Inputs of the attention: elements -1.0, 0.0, 1.0 and 2.0.
GenMatrix(n, m, seed) ==
  T2(n, m, [i \in Nat, j \in Nat |-> ((Elem(seed, (i - 1) * m + (j - 1)) % 4) - 1) * Scale])

NoMask == [given |-> FALSE, shape |-> <<0, 0>>, at |-> <<>>]
GivenMask(n, m, F) ==
  [given |-> TRUE, shape |-> <<n, m>>, at |-> [i \in 1..n |-> [j \in 1..m |-> F[i, j]]]]

\* No mask, the padding masks of shape (1, Lk) and the causal mask (Lq, Lk).
AttentionMasks(Lq, Lk) ==
  {NoMask, GivenMask(Lq, Lk, [i \in Nat, j \in Nat |-> j <= i])}
  \cup {GivenMask(1, Lk, [i \in Nat, j \in Nat |-> m[j]]) : m \in [1..Lk -> BOOLEAN]}

\* The dropout rates -0.5, 0.0, 0.5, 1.0 and 1.5.
DropoutRates == {-(Scale \div 2), 0, Scale \div 2, Scale, (3 * Scale) \div 2}

---------------------------------------------------------------------------
(* The layers and their calls *)

ShiftRightInit ==
  /\ layer = "ShiftRight"
  /\ params = <<>>
  /\ \E D \in Depths : arg \in SeqInputs(D)
  /\ res = NotCalled

ApplyShiftRight ==
  /\ layer = "ShiftRight"
  /\ res' = ShiftRight(arg)
  /\ UNCHANGED <<layer, params, arg>>

PositionalEncodingInit ==
  /\ layer = "PositionalEncoding"
  /\ \E max_len \in 1..MaxTableLen : \E D \in Depths :
       /\ params = positional_encoding_new_params(max_len, D)
       /\ arg \in SeqInputs(D)
  /\ res = NotCalled

ApplyPositionalEncoding ==
  /\ layer = "PositionalEncoding"
  /\ res' = PositionalEncoding(arg, params)
  /\ UNCHANGED <<layer, params, arg>>

CausalMaskInit ==
  /\ layer = "CausalMask"
  /\ params = <<>>
  /\ \E B \in 1..MaxBatch : \E L \in 0..MaxSize : \E axis \in {-1, 0, 1} :
       arg = [shape |-> <<B, L>>, axis |-> axis]
  /\ res = NotCalled

ApplyCausalMask ==
  /\ layer = "CausalMask"
  /\ res' = CausalMask(arg.shape, arg.axis)
  /\ UNCHANGED <<layer, params, arg>>

EncoderDecoderMaskInit ==
  /\ layer = "EncoderDecoderMask"
  /\ params = <<>>
  /\ \E m \in PaddingMasks : \E T \in 0..MaxSize :
       arg = [padding_mask |-> m, decoder_input_shape |-> <<m.shape[1], T>>]
  /\ res = NotCalled

ApplyEncoderDecoderMask ==
  /\ layer = "EncoderDecoderMask"
  /\ res' = EncoderDecoderMask(arg.padding_mask, arg.decoder_input_shape)
  /\ UNCHANGED <<layer, params, arg>>

\* The heads of PureMultiHeadedAttention: q of shape (nbatch, seqlen,
\* feature_depth) and num_heads; the assertion on feature_depth comes first.
HeadsInit ==
  /\ layer = "PureMultiHeadedAttention"
  /\ params = <<>>
  /\ \E B \in 1..MaxBatch : \E L \in 0..MaxSeqLen :
     \E F \in 1..(MaxHeads * MaxHeadDepth) : \E H \in 1..MaxHeads : \E s \in 0..MaxSeed :
       arg = [q |-> GenTensor(B, L, F, s), num_heads |-> H]
  /\ res = NotCalled

ApplySplitHeads ==
  /\ layer = "PureMultiHeadedAttention"
  /\ res.pc = "start"
  /\ LET feature_depth == arg.q.shape[3]
         head_depth == feature_depth \div arg.num_heads
         nbatch == arg.q.shape[1]
     IN res' = IF feature_depth % arg.num_heads # 0 THEN Raised("AssertionError")
               ELSE [pc |-> "split", err |-> "none",
                     val |-> SplitHeads(arg.q, nbatch, arg.num_heads, head_depth)]
  /\ UNCHANGED <<layer, params, arg>>

ApplyJoinHeads ==
  /\ layer = "PureMultiHeadedAttention"
  /\ res.pc = "split"
  /\ LET head_depth == arg.q.shape[3] \div arg.num_heads
         nbatch == arg.q.shape[1]
     IN res' = Returned(JoinHeads(res.val, nbatch, arg.num_heads, head_depth))
  /\ UNCHANGED <<layer, params, arg>>

DotProductAttentionInit ==
  /\ layer = "DotProductAttention"
  /\ params = <<>>
  /\ \E Lq \in 1..MaxAttnLen : \E Lk \in 1..MaxAttnLen : \E D \in 1..MaxAttnDepth :
     \E Dk \in {D, D + 1} : \E s \in 0..MaxSeed : \E mask \in AttentionMasks(Lq, Lk) :
     \E dropout \in DropoutRates : \E mode \in {"train", "eval"} : \E rng \in 0..MaxRng :
       arg = [query |-> GenMatrix(Lq, D, s), key |-> GenMatrix(Lk, Dk, s + 1),
              value |-> GenMatrix(Lk, D, s + 2), mask |-> mask,
              dropout |-> dropout, mode |-> mode, rng |-> rng]
  /\ res = NotCalled

ApplyDotProductAttention ==
  /\ layer = "DotProductAttention"
  /\ res' = DotProductAttention(arg.query, arg.key, arg.value, arg.mask,
                                arg.dropout, arg.mode, arg.rng)
  /\ UNCHANGED <<layer, params, arg>>

Init ==
  \/ CausalMaskInit
  \/ EncoderDecoderMaskInit
  \/ PositionalEncodingInit
  \/ DotProductAttentionInit
  \/ HeadsInit
  \/ ShiftRightInit

Next ==
  \/ ApplyCausalMask
  \/ ApplyEncoderDecoderMask
  \/ ApplyPositionalEncoding
  \/ ApplyDotProductAttention
  \/ ApplySplitHeads
  \/ ApplyJoinHeads
  \/ ApplyShiftRight

Spec == Init /\ [][Next]_vars

---------------------------------------------------------------------------
(* Claims about ShiftRight *)

\* The call is a chunked ShiftRight over a non-empty list of non-empty chunks.
ShiftRightChunkedCase ==
  /\ layer = "ShiftRight"
  /\ arg.chunked
  /\ arg.lens # <<>>
  /\ \A k \in 1..Len(arg.lens) : arg.lens[k] >= 1

\* C1: chunked ShiftRight over non-empty chunks returns as many chunks, of the
\* same lengths, as it was given, equal to the concatenation of the chunks
\* shifted by the non-chunked ShiftRight and split again at the original
\* boundaries: chunk 1 starts with zeros, chunk k > 1 starts with the last
\* time step of input chunk k-1, and each chunk drops its own last time step.
C1_ChunkedShiftIsShiftOfConcat ==
  (ShiftRightChunkedCase /\ res.pc = "done") =>
    /\ res.err = "none"
    /\ Len(res.val) = Len(arg.chunks)
    /\ \A k \in 1..Len(arg.chunks) : res.val[k].shape = arg.chunks[k].shape
    /\ res.val = SplitAt(ShiftRightTensor(ConcatAll(arg.chunks, arg.batch, arg.depth)),
                         arg.lens)
    /\ \A k \in 1..Len(arg.chunks) : \A b \in 1..arg.batch : \A d \in 1..arg.depth :
         /\ res.val[k].at[b][1][d] =
              IF k = 1 THEN 0 ELSE arg.chunks[k - 1].at[b][arg.lens[k - 1]][d]
         /\ \A t \in 2..arg.lens[k] :
              res.val[k].at[b][t][d] = arg.chunks[k].at[b][t - 1][d]

\* A shifted list of three chunks, one of them longer than one time step.
C1_Witness ==
  /\ ShiftRightChunkedCase
  /\ res.pc = "done"
  /\ Len(arg.lens) >= 3
  /\ \E k \in 1..Len(arg.lens) : arg.lens[k] >= 2
  /\ \E k \in 2..Len(arg.lens) : \E b \in 1..arg.batch : \E d \in 1..arg.depth :
       res.val[k].at[b][1][d] # 0

\* The call is a non-chunked ShiftRight of a tensor with at least one time step.
ShiftRightPlainCase ==
  /\ layer = "ShiftRight"
  /\ ~arg.chunked
  /\ arg.lens[1] >= 1

\* x with its last time step overwritten by the value v.
WithLastStep(x, v) ==
  T3(x.shape[1], x.shape[2], x.shape[3],
     [b \in Nat, t \in Nat, d \in Nat |-> IF t = x.shape[2] THEN v ELSE x.at[b][t][d]])

\* C7: non-chunked ShiftRight of a (batch, L, D) tensor, L >= 1, returns a
\* tensor of the same shape with zeros at time step 0 and input[:, i-1] at
\* every later time step i; the last time step of the input does not reach
\* the output, and the call leaves its input as it was.
C7_ShiftRightPlain ==
  [][ (ShiftRightPlainCase /\ res.pc = "start") =>
        /\ arg' = arg
        /\ res'.err = "none"
        /\ res'.val.shape = arg.chunks[1].shape
        /\ \A b \in 1..arg.batch : \A d \in 1..arg.depth :
             /\ res'.val.at[b][1][d] = 0
             /\ \A i \in 2..arg.lens[1] :
                  res'.val.at[b][i][d] = arg.chunks[1].at[b][i - 1][d]
        /\ \A v \in 0..(ValMod - 1) :
             res'.val = ShiftRight(Plain(WithLastStep(arg.chunks[1], v))).val ]_vars

\* A shifted tensor of at least two time steps whose last step is not zero.
C7_Witness ==
  /\ ShiftRightPlainCase
  /\ res.pc = "done"
  /\ arg.lens[1] >= 2
  /\ arg.batch >= 2
  /\ \E d \in 1..arg.depth : arg.chunks[1].at[1][arg.lens[1]][d] # 0
  /\ \E d \in 1..arg.depth : res.val.at[1][2][d] # 0

---------------------------------------------------------------------------
(* Claims about PositionalEncoding *)

\* The total length of the input along the time axis.
TotalLen == SumSeq(arg.lens)

\* The call is a chunked PositionalEncoding whose chunks fit in the table.
PositionalEncodingChunkedCase ==
  /\ layer = "PositionalEncoding"
  /\ arg.chunked
  /\ TotalLen <= params.shape[2]

\* C2: chunked PositionalEncoding adds to chunk k the table rows
\* [offset, offset + chunk_len), offset being the total length of the chunks
\* before k; when the total length is at most max_len the result equals the
\* non-chunked PositionalEncoding of the concatenation, split again at the
\* original boundaries.
C2_ChunkedEncodingIsEncodingOfConcat ==
  (PositionalEncodingChunkedCase /\ res.pc = "done") =>
    /\ res.err = "none"
    /\ Len(res.val) = Len(arg.chunks)
    /\ \A k \in 1..Len(arg.chunks) :
         /\ res.val[k].shape = arg.chunks[k].shape
         /\ \A b \in 1..arg.batch : \A t \in 1..arg.lens[k] : \A d \in 1..arg.depth :
              res.val[k].at[b][t][d] =
                arg.chunks[k].at[b][t][d]
                + params.at[1][PrefixSum(arg.lens, k - 1) + t][d]
    /\ res.val =
         SplitAt(PositionalEncoding(
                   Plain(ConcatAll(arg.chunks, arg.batch, arg.depth)), params).val,
                 arg.lens)

\* An encoded list whose last chunk starts past the first table row, where
\* the table row it receives differs from the first one.
C2_Witness ==
  /\ PositionalEncodingChunkedCase
  /\ res.pc = "done"
  /\ Len(arg.lens) >= 2
  /\ \A k \in 1..Len(arg.lens) : arg.lens[k] >= 1
  /\ LET n == Len(arg.lens)
         offset == PrefixSum(arg.lens, n - 1)
     IN /\ params.at[1][offset + 1] # params.at[1][1]
        /\ res.val[n].at[1][1][1] = arg.chunks[n].at[1][1][1] + params.at[1][offset + 1][1]

\* C5: PositionalEncoding of an input longer than max_len fails with an error
\* and returns nothing, whatever max_len >= 1, the batch size and the chunk
\* layout are.
C5_TooLongInputIsRejected ==
  (layer = "PositionalEncoding" /\ res.pc = "done" /\ TotalLen > params.shape[2]) =>
    (res.err # "none" /\ res.val = <<>>)

\* C6: a chunked input with a zero-length chunk is rejected with an error by
\* ShiftRight and by PositionalEncoding, and the call returns nothing.
C6_EmptyChunkIsRejected ==
  ( /\ layer \in {"ShiftRight", "PositionalEncoding"}
    /\ arg.chunked
    /\ \E k \in 1..Len(arg.lens) : arg.lens[k] = 0
    /\ res.pc = "done" ) =>
    (res.err # "none" /\ res.val = <<>>)

---------------------------------------------------------------------------
(* Claims about the masks *)

\* C8: for every size n >= 1 CausalMask returns a mask of shape (1, n, n)
\* whose entry (i, j) is set iff j <= i: it has n(n+1)/2 set entries, and no
\* position i is allowed a later position j > i.
C8_CausalMaskIsLowerTriangular ==
  (layer = "CausalMask" /\ res.pc = "done" /\ ShapeAt(arg.shape, arg.axis) >= 1) =>
    LET n == ShapeAt(arg.shape, arg.axis)
        set == {ij \in (1..n) \X (1..n) : res.val.at[1][ij[1]][ij[2]] # 0}
    IN /\ res.err = "none"
       /\ res.val.shape = <<1, n, n>>
       /\ \A i \in 1..n : \A j \in 1..n :
            /\ res.val.at[1][i][j] \in {0, 1}
            /\ (res.val.at[1][i][j] = 1) <=> (j <= i)
       /\ 2 * Cardinality(set) = n * (n + 1)
       /\ \A ij \in set : ij[2] <= ij[1]

\* The causal mask of size 4.
C8_Witness ==
  /\ layer = "CausalMask"
  /\ res.pc = "done"
  /\ ShapeAt(arg.shape, arg.axis) = 4
  /\ res.val.at[1] = <<<<1, 0, 0, 0>>, <<1, 1, 0, 0>>, <<1, 1, 1, 0>>, <<1, 1, 1, 1>>>>

\* The padding mask of the call at batch entry b and encoder position k.
PaddingAt(b, k) ==
  IF Len(arg.padding_mask.shape) = 2 THEN arg.padding_mask.at[b][k]
  ELSE arg.padding_mask.at[b][1][1][k]

\* C10: EncoderDecoderMask returns a mask of shape (batch, 1, decoder_length,
\* encoder_length) in which every decoder position holds the padding mask:
\* entry (b, 0, t, k) is set iff the padding mask is set at (b, k).
C10_EncoderDecoderMaskRepeatsPadding ==
  (layer = "EncoderDecoderMask" /\ res.pc = "done") =>
    LET B == arg.padding_mask.shape[1]
        L == ShapeAt(arg.padding_mask.shape, -1)
        T == arg.decoder_input_shape[2]
    IN /\ res.err = "none"
       /\ res.val.shape = <<B, 1, T, L>>
       /\ \A b \in 1..B : \A t \in 1..T : \A k \in 1..L :
            /\ (res.val.at[b][1][t][k] # 0) <=> PaddingAt(b, k)
            /\ res.val.at[b][1][t] = res.val.at[b][1][1]

\* A mask over three decoder positions built from a padding mask with a
\* padded and an unpadded encoder position.
C10_Witness ==
  /\ layer = "EncoderDecoderMask"
  /\ res.pc = "done"
  /\ arg.decoder_input_shape[2] = 3
  /\ ShapeAt(arg.padding_mask.shape, -1) = 3
  /\ PaddingAt(1, 1) /\ ~PaddingAt(1, 2) /\ PaddingAt(1, 3)
  /\ res.val.at[1][1][3] = <<Scale, 0, Scale>>

---------------------------------------------------------------------------
(* Claims about the heads *)

\* C9: for x of shape (batch, seq, feature_depth) with feature_depth a multiple
\* of num_heads, SplitHeads puts element (b, s, h * head_depth + d) at
\* (b, h, s, d) of a (batch, num_heads, seq, head_depth) tensor, and JoinHeads
\* of that tensor is x again, element for element.
C9_JoinHeadsInvertsSplitHeads ==
  (layer = "PureMultiHeadedAttention" /\ arg.q.shape[3] % arg.num_heads = 0) =>
    LET B == arg.q.shape[1]
        S == arg.q.shape[2]
        H == arg.num_heads
        head_depth == arg.q.shape[3] \div H
    IN /\ res.pc = "split" =>
            /\ res.val.shape = <<B, H, S, head_depth>>
            /\ \A b \in 1..B : \A h \in 1..H : \A s \in 1..S : \A d \in 1..head_depth :
                 res.val.at[b][h][s][d] = arg.q.at[b][s][(h - 1) * head_depth + d]
       /\ res.pc = "done" => (res.err = "none" /\ res.val = arg.q)

\* A tensor of several heads of depth two, split and joined again.
C9_Witness ==
  /\ layer = "PureMultiHeadedAttention"
  /\ res.pc = "done"
  /\ res.err = "none"
  /\ arg.num_heads >= 2
  /\ arg.q.shape[3] = 2 * arg.num_heads
  /\ arg.q.shape[2] >= 2
  /\ res.val = arg.q

---------------------------------------------------------------------------
(* Claims about DotProductAttention *)

\* C3: DotProductAttention with dropout_rate >= 1.0 is rejected with the
\* invalid-configuration error before any tensor computation is made, in any
\* mode and for any inputs, and returns nothing.
C3_DropoutRateRejectedBeforeComputation ==
  (layer = "DotProductAttention" /\ res.pc = "done" /\ arg.dropout >= Scale) =>
    /\ res.err = "ValueError: Dropout rates must be lower than 1."
    /\ res.computed = <<>>
    /\ res.val = <<>>

\* The call with the same query, key, value and mask and dropout_rate 0.
WithoutDropout ==
  DotProductAttention(arg.query, arg.key, arg.value, arg.mask, 0, arg.mode, arg.rng)

\* The softmax weights of the call, before any dropout.
SoftmaxWeights ==
  Softmax(IF arg.mask.given THEN Where(arg.mask, Scores(arg.query, arg.key))
          ELSE Scores(arg.query, arg.key))

\* The call is one where dropout is to be a no-op: eval mode, or rate 0.
DropoutNoOpCase ==
  /\ layer = "DotProductAttention"
  /\ res.pc = "done"
  /\ arg.mode = "eval" \/ arg.dropout = 0

\* C4 as stated: in eval mode, whatever dropout_rate is, and at dropout_rate 0
\* in either mode, the call returns what the call with dropout_rate 0 returns.
C4_DropoutNoOpForEveryRate ==
  DropoutNoOpCase =>
    (res.err = WithoutDropout.err /\ res.val = WithoutDropout.val)

\* C4, amended: in eval mode with dropout_rate < 1.0, and at dropout_rate 0 in
\* either mode, the call returns what the call with dropout_rate 0 returns and
\* multiplies the values by the unchanged softmax weights.
C4_DropoutNoOpBelowOne ==
  (DropoutNoOpCase /\ arg.dropout < Scale) =>
    /\ res.err = WithoutDropout.err
    /\ res.val = WithoutDropout.val
    /\ res.err = "none" => res.dots = SoftmaxWeights

\* An eval-mode call with rate 0.5 and a key that would drop a weight that
\* is not zero.
C4_Witness ==
  /\ DropoutNoOpCase
  /\ arg.mode = "eval"
  /\ arg.dropout = Scale \div 2
  /\ res.err = "none"
  /\ \E i \in 1..res.dots.shape[1] : \E j \in 1..res.dots.shape[2] :
       /\ ~Bernoulli(arg.rng, res.dots.shape).at[i][j]
       /\ res.dots.at[i][j] > 0

=============================================================================
